---- MODULE Spec2Model ----
(***************************************************************************)
(* Payment resource and request model of src/types/payments.ts.            *)
(*                                                                         *)
(* The source declares the shapes (interfaces) of the payment resources,   *)
(* of the creation requests and of the patch request, and nothing else: it *)
(* has no function.  Every interface is modelled by the keys it declares,  *)
(* required and optional, and the limits its comments state.  The          *)
(* operations parseResource, buildRequest and applyPatch are those of the  *)
(* specification (section 4.1); they validate a raw record against the     *)
(* declarations of the source.  The status lifecycles of section 3.3 are   *)
(* driven by the remote service and are not modelled.                      *)
(*                                                                         *)
(* A raw record is [type, id, attributes, relationships]; attributes and   *)
(* relationships are functions from the keys that are present to values.   *)
(* An absent key is a key outside the DOMAIN; a null is a value.           *)
(***************************************************************************)
EXTENDS Integers, FiniteSets, Sequences, TLC

VARIABLES raw, patch, op, pc, result

vars == <<raw, patch, op, pc, result>>

-----------------------------------------------------------------------------
(* Bounds of the model.                                                    *)

\* tag maps have keys 1..MaxTagKeys
MaxTagKeys == 1

\* the positive integer amounts tried are 1..MaxAmount (and 1000)
MaxAmount == 2

-----------------------------------------------------------------------------
(* Values.  Every value is a record of the same fields, so that any two    *)
(* values can be compared.  A number n/d keeps numerator and denominator;  *)
(* a string keeps its text in s when the text matters (an enum) and its    *)
(* length in n; an object keeps its key-value mapping in m.                *)

Num(n, d) == [kind |-> "number", n |-> n, d |-> d, s |-> "", m |-> <<>>]

Str(len) == [kind |-> "string", n |-> len, d |-> 1, s |-> "", m |-> <<>>]

Enum(text) == [kind |-> "string", n |-> 0, d |-> 1, s |-> text, m |-> <<>>]

Bool(b) == [kind |-> "boolean", n |-> IF b THEN 1 ELSE 0, d |-> 1, s |-> "", m |-> <<>>]

Obj(map) == [kind |-> "object", n |-> 0, d |-> 1, s |-> "", m |-> map]

Null == [kind |-> "null", n |-> 0, d |-> 1, s |-> "", m |-> <<>>]

\* the value of a raw record's type when the record has no type key
NoType == "<missing>"

-----------------------------------------------------------------------------
(* The declarations of src/types/payments.ts.  An interface body is the    *)
(* pair of its required and its optional keys.                             *)

Keys(req, opt) == [required |-> req, optional |-> opt]

\* TypeScript's A & B: a key is required when either side requires it
Both(A, B) ==
    Keys(A.required \cup B.required,
         (A.optional \cup B.optional) \ (A.required \cup B.required))

\* TypeScript's Pick<A, keys>
Pick(A, keys) == Keys(A.required \cap keys, A.optional \cap keys)

Declared(I) == I.required \cup I.optional

PaymentStatus ==
    {"Pending", "PendingReview", "Rejected", "Clearing", "Sent", "Canceled", "Returned"}

Payment == {"achPayment", "bookPayment", "wirePayment", "billPayment"}

BasePaymentAttributes ==
    Keys({"createdAt", "status", "direction", "description", "amount"},
         {"reason", "tags"})

BasePaymentRelationships ==
    Keys({"account"}, {"customer", "customers", "transaction"})

AchPayment ==
    [kind |-> "AchPayment", type |-> "achPayment",
     attributes |-> Both(Keys({"counterparty"}, {"addenda", "settlementDate"}),
                         BasePaymentAttributes),
     relationships |-> Both(Keys({"counterparty"}, {}), BasePaymentRelationships)]

BookPayment ==
    [kind |-> "BookPayment", type |-> "bookPayment",
     attributes |-> BasePaymentAttributes,
     relationships |-> Both(Keys({"counterpartyAccount", "counterpartyCustomer"}, {}),
                            BasePaymentRelationships)]

WirePayment ==
    [kind |-> "WirePayment", type |-> "wirePayment",
     attributes |-> Both(Keys({"counterparty"}, {}), BasePaymentAttributes),
     relationships |-> BasePaymentRelationships]

\* the bill payment declared with all the shared attributes
BillPayment_AllBaseAttributes ==
    [kind |-> "BillPayment", type |-> "billPayment",
     attributes |-> BasePaymentAttributes,
     relationships |-> BasePaymentRelationships]

BillPayment ==
    [kind |-> "BillPayment", type |-> "billPayment",
     attributes |-> Pick(BasePaymentAttributes,
                         {"createdAt", "status", "direction", "description",
                          "amount", "tags"}),
     relationships |-> BasePaymentRelationships]

AchReceivedPaymentStatus == {"Pending", "Advanced", "Completed", "Returned"}

AchReceivedPayment ==
    [kind |-> "AchReceivedPayment", type |-> "achReceivedPayment",
     attributes |-> Both(Keys({"status", "wasAdvanced", "completionDate", "companyName",
                               "counterpartyRoutingNumber", "traceNumber"},
                              {"returnReason", "addenda", "secCode"}),
                         Pick(BasePaymentAttributes,
                              {"createdAt", "amount", "description", "tags"})),
     relationships |-> Both(Keys({}, {"receivePaymentTransaction",
                                      "paymentAdvanceTransaction",
                                      "repayPaymentAdvanceTransaction"}),
                            Pick(BasePaymentRelationships, {"account", "customer"}))]

\* every payment type taken as patchable
PatchPaymentRequestTypes_AllPayments == Payment \cup {"achReceivedPayment"}

PatchPaymentRequestTypes == {"achPayment", "bookPayment", "achReceivedPayment"}

\* the patch request declared with a description beside the tags
PatchPaymentRequestAttributes_WithDescription == {"tags", "description"}

PatchPaymentRequestAttributes == {"tags"}

CreateWirePaymentRequest ==
    [kind |-> "CreateWirePaymentRequest", type |-> "wirePayment",
     attributes |-> Keys({"amount", "description", "counterparty"},
                         {"idempotencyKey", "tags"}),
     relationships |-> Keys({"account"}, {})]

CreateBookPaymentRequest ==
    [kind |-> "CreateBookPaymentRequest", type |-> "bookPayment",
     attributes |-> Keys({"amount", "description"},
                         {"direction", "idempotencyKey", "tags"}),
     relationships |-> Keys({"account", "counterpartyAccount"}, {})]

CreateInlinePaymentRequest ==
    [kind |-> "CreateInlinePaymentRequest", type |-> "achPayment",
     attributes |-> Keys({"amount", "direction", "counterparty", "description"},
                         {"addenda", "idempotencyKey", "verifyCounterpartyBalance",
                          "tags"}),
     relationships |-> Keys({"account"}, {})]

\* the linked request declared with the inline request's relationships
CreateLinkedPaymentRequest_NoReference ==
    [kind |-> "CreateLinkedPaymentRequest", type |-> "achPayment",
     attributes |-> Keys({"amount", "direction", "description"},
                         {"addenda", "idempotencyKey", "verifyCounterpartyBalance",
                          "tags"}),
     relationships |-> Keys({"account"}, {})]

CreateLinkedPaymentRequest ==
    [kind |-> "CreateLinkedPaymentRequest", type |-> "achPayment",
     attributes |-> Keys({"amount", "direction", "description"},
                         {"addenda", "idempotencyKey", "verifyCounterpartyBalance",
                          "tags"}),
     relationships |-> Keys({"account", "counterparty"}, {})]

CreateVerifiedPaymentRequest ==
    [kind |-> "CreateVerifiedPaymentRequest", type |-> "achPayment",
     attributes |-> Keys({"amount", "direction", "description", "plaidProcessorToken"},
                         {"idempotencyKey", "counterpartyName",
                          "verifyCounterpartyBalance"}),
     relationships |-> Keys({"account"}, {})]

CreatePaymentRequest ==
    {CreateWirePaymentRequest, CreateBookPaymentRequest, CreateInlinePaymentRequest,
     CreateLinkedPaymentRequest, CreateVerifiedPaymentRequest}

\* the resource interfaces the file declares
Resources == {AchPayment, BookPayment, WirePayment, BillPayment, AchReceivedPayment}

-----------------------------------------------------------------------------
(* Field constraints stated with the declarations.                         *)

\* "Payment description (maximum of 10 characters)", ACH requests and the
\* shared resource attributes
AchDescriptionMax == 10

\* "Payment description (maximum of 50 characters)", wire request
WireDescriptionMax == 50

\* "Payment description (maximum of 50 characters)", book request
BookDescriptionMax == 50

\* the ACH ceiling applied to every request
RequestDescriptionMax_AchForAll(type) == AchDescriptionMax

\* the description ceiling of a creation request, by its discriminator
RequestDescriptionMax(type) ==
    CASE type = "wirePayment" -> WireDescriptionMax
      [] type = "bookPayment" -> BookDescriptionMax
      [] OTHER -> AchDescriptionMax

\* the description ceiling of a resource, by its discriminator
ResourceDescriptionMax(type) ==
    CASE type = "wirePayment" -> WireDescriptionMax
      [] type = "bookPayment" -> BookDescriptionMax
      [] OTHER -> AchDescriptionMax

\* the primitive kind the declarations give an attribute
KindOf(k) ==
    CASE k = "amount" -> "number"
      [] k \in {"tags", "counterparty"} -> "object"
      [] k \in {"wasAdvanced", "verifyCounterpartyBalance"} -> "boolean"
      [] OTHER -> "string"

\* Relationship, and Relationship[] for customers
RelKindOf(k) == IF k = "customers" THEN "relationshipList" ELSE "relationship"

\* the kind declared for key k of the section at
KindAt(at, k) == IF at = "attributes" THEN KindOf(k) ELSE RelKindOf(k)

Rel(k) == [kind |-> RelKindOf(k), n |-> 0, d |-> 1, s |-> "", m |-> <<>>]

\* zero taken as a valid amount
IsPositiveInteger_ZeroAllowed(v) == v.kind = "number" /\ v.d = 1 /\ v.n >= 0

\* amount is a positive integer, in minor currency units
IsPositiveInteger(v) == v.kind = "number" /\ v.d = 1 /\ v.n > 0

\* no exclusion rule
MutuallyExclusive_None == {}

\* the pairs of relationships of which at most one may be set
MutuallyExclusive == {{"customer", "customers"}}

-----------------------------------------------------------------------------
(* Results: a success carries the value, a failure the set of errors,      *)
(* each naming the offending field.                                        *)

Err(e, at, key) == [error |-> e, at |-> at, key |-> key]

NoValue == [type |-> NoType, id |-> "", attributes |-> <<>>, relationships |-> <<>>]

Outcome(errors, value) ==
    [ok |-> errors = {}, errors |-> errors,
     value |-> IF errors = {} THEN value ELSE NoValue]

NoResult == [ok |-> FALSE, errors |-> {}, value |-> NoValue]

\* the errors of the attributes and relationships f of a record against the
\* declared keys I: required keys absent, values of the wrong kind
ShapeErrors(e, at, I, f) ==
    {Err(e, at, k) : k \in {k \in I.required : k \notin DOMAIN f}}
    \cup {Err(e, at, k) : k \in {k \in Declared(I) \cap DOMAIN f : f[k].kind # KindAt(at, k)}}

\* keys that are present and not declared: they must be absent, not null
UndeclaredErrors(e, at, I, f) ==
    {Err(e, at, k) : k \in DOMAIN f \ Declared(I)}

AmountErrors(e, f) ==
    IF "amount" \in DOMAIN f /\ ~IsPositiveInteger(f["amount"])
    THEN {Err(e, "attributes", "amount")} ELSE {}

DescriptionErrors(e, f, max) ==
    IF "description" \in DOMAIN f /\ f["description"].kind = "string"
       /\ f["description"].n > max
    THEN {Err(e, "attributes", "description")} ELSE {}

ExclusiveErrors(e, f) ==
    {Err(e, "relationships", "customers") :
        p \in {p \in MutuallyExclusive : p \subseteq DOMAIN f}}

StatusErrors(e, type, f) ==
    IF "status" \in DOMAIN f /\ f["status"].kind = "string"
       /\ f["status"].s \notin (IF type = "achReceivedPayment"
                                THEN AchReceivedPaymentStatus ELSE PaymentStatus)
    THEN {Err(e, "attributes", "status")} ELSE {}

-----------------------------------------------------------------------------
(* parseResource(raw): dispatch on the type tag, then validate the record  *)
(* against the variant's declaration.                                      *)

\* only the members of the Payment union taken as known
KnownDiscriminators_PaymentUnion == Payment

KnownDiscriminators == {I.type : I \in Resources}

ResourceOf(type) == CHOOSE I \in Resources : I.type = type

parseResource(r) ==
    IF r.type \notin KnownDiscriminators
    THEN Outcome({Err("SchemaError", "type", "type")}, NoValue)
    ELSE LET I == ResourceOf(r.type)
             e == "SchemaError"
         IN  Outcome(
                ShapeErrors(e, "attributes", I.attributes, r.attributes)
                \cup ShapeErrors(e, "relationships", I.relationships, r.relationships)
                \cup UndeclaredErrors(e, "attributes", I.attributes, r.attributes)
                \cup UndeclaredErrors(e, "relationships", I.relationships, r.relationships)
                \cup ExclusiveErrors(e, r.relationships)
                \cup AmountErrors(e, r.attributes)
                \cup DescriptionErrors(e, r.attributes, ResourceDescriptionMax(r.type))
                \cup StatusErrors(e, r.type, r.attributes),
                [type |-> I.type, id |-> r.id, attributes |-> r.attributes,
                 relationships |-> r.relationships])

-----------------------------------------------------------------------------
(* buildRequest(variant, attributes, relationships): the request kinds of  *)
(* one discriminator are told apart by the keys only some of them require  *)
(* (the counterparty-specification mechanism); exactly one must be         *)
(* supplied.                                                               *)

RequestDiscriminators == {R.type : R \in CreatePaymentRequest}

RequestsOf(type) == {R \in CreatePaymentRequest : R.type = type}

\* the keys every request kind of the discriminator requires
CommonKeys(type, section) ==
    {k \in UNION {R[section].required : R \in RequestsOf(type)} :
        \A R \in RequestsOf(type) : k \in R[section].required}

\* the keys that tell R apart from the other kinds of its discriminator
Mechanism(R) ==
    UNION {{<<section, k>> : k \in R[section].required \ CommonKeys(R.type, section)} :
             section \in {"attributes", "relationships"}}

Supplied(R, r) == \A p \in Mechanism(R) : p[2] \in DOMAIN r[p[1]]

buildRequest(r) ==
    IF r.type \notin RequestDiscriminators
    THEN Outcome({Err("ValidationError", "type", "type")}, NoValue)
    ELSE LET e == "ValidationError"
             kinds == {R \in RequestsOf(r.type) : Supplied(R, r)}
             one == Cardinality(kinds) = 1
             R == CHOOSE R \in kinds : TRUE
             attrs == IF one THEN R.attributes
                      ELSE Keys(CommonKeys(r.type, "attributes"), {})
             rels == IF one THEN R.relationships
                     ELSE Keys(CommonKeys(r.type, "relationships"), {})
         IN  Outcome(
                (IF one THEN {} ELSE {Err(e, "request", "counterparty")})
                \cup ShapeErrors(e, "attributes", attrs, r.attributes)
                \cup ShapeErrors(e, "relationships", rels, r.relationships)
                \cup AmountErrors(e, r.attributes)
                \cup DescriptionErrors(e, r.attributes, RequestDescriptionMax(r.type)),
                [type |-> r.type, id |-> r.id, attributes |-> r.attributes,
                 relationships |-> r.relationships])

\* the request kind buildRequest returns for an accepted record
RequestKind(r) == (CHOOSE R \in RequestsOf(r.type) : Supplied(R, r)).kind

-----------------------------------------------------------------------------
(* applyPatch(resource, patch): the patch must carry the resource's        *)
(* discriminator, one of the patchable ones; the attributes of the patch   *)
(* request replace the resource's.                                         *)

applyPatch(resource, p) ==
    LET e == "ValidationError"
        merged == PatchPaymentRequestAttributes \cap DOMAIN p.attributes
    IN  Outcome(
           (IF p.type \notin PatchPaymentRequestTypes
            THEN {Err(e, "type", "type")} ELSE {})
           \cup (IF p.type # resource.type THEN {Err(e, "type", "type")} ELSE {})
           \cup {Err(e, "attributes", k) :
                   k \in {k \in PatchPaymentRequestAttributes : k \notin DOMAIN p.attributes}},
           [resource EXCEPT !.attributes =
               [k \in DOMAIN resource.attributes \cup merged |->
                   IF k \in merged THEN p.attributes[k] ELSE resource.attributes[k]]])

-----------------------------------------------------------------------------
(* Inputs.  A raw record is drawn around the declared shapes: every        *)
(* subset of a shape's optional keys, one required key dropped or null,    *)
(* one undeclared key added (with a value or null), under any type tag;    *)
(* and, for the plain shapes, the amounts, description lengths and tags.   *)

Types == KnownDiscriminators \cup RequestDiscriminators \cup {"cardPayment", NoType}

Shapes == Resources \cup CreatePaymentRequest

ExtraAttributes == {"counterparty", "reason", "plaidProcessorToken"}

ExtraRelationships == {"counterparty", "customer", "customers"}

Present(keys, nulls) == [keys |-> keys, nulls |-> nulls]

Variants(I, extra) ==
    {Present(I.required \cup o, {}) : o \in SUBSET I.optional}
    \cup {Present(I.required \ {k}, {}) : k \in I.required}
    \cup {Present(I.required, {k}) : k \in I.required}
    \cup {Present(b \cup {x}, {}) : b \in {I.required, Declared(I)}, x \in extra}
    \cup {Present(b \cup {x}, {x}) : b \in {I.required, Declared(I)}, x \in extra}

PlainVariants(I) == {Present(I.required, {}), Present(Declared(I), {})}

TagMaps == UNION {[S -> {"a", "b"}] : S \in SUBSET (1..MaxTagKeys)}

Amounts ==
    {Num(n, 1) : n \in {-500, -1, 0, 1000} \cup 1..MaxAmount} \cup {Num(3, 2)}

DescriptionLengths ==
    {0, 4} \cup UNION {{max, max + 1} :
                 max \in {AchDescriptionMax, WireDescriptionMax, BookDescriptionMax}}

\* statuses of both enumerations, and one of neither
Statuses == {"Pending", "Clearing", "Advanced", "Settled"}

Nominal(k) ==
    CASE k = "amount" -> Num(1000, 1)
      [] k = "description" -> Str(4)
      [] k = "status" -> Enum("Pending")
      [] k = "direction" -> Enum("Credit")
      [] KindOf(k) = "object" -> Obj(<<>>)
      [] KindOf(k) = "boolean" -> Bool(FALSE)
      [] OTHER -> Str(8)

Record(type, a, r, amount, description, status, tags) ==
    [type |-> type, id |-> "p1",
     attributes |->
        [k \in a.keys |->
            CASE k \in a.nulls -> Null
              [] k = "amount" -> amount
              [] k = "description" -> description
              [] k = "status" -> status
              [] k = "tags" -> Obj(tags)
              [] OTHER -> Nominal(k)],
     relationships |->
        [k \in r.keys |-> IF k \in r.nulls THEN Null ELSE Rel(k)]]

\* the record is one of a shape's variants, with the nominal values
ShapeInput(r) ==
    \E S \in Shapes, t \in Types :
      \E a \in Variants(S.attributes, ExtraAttributes),
         rel \in Variants(S.relationships, ExtraRelationships) :
         r = Record(t, a, rel, Nominal("amount"), Nominal("description"),
                    Nominal("status"), <<>>)

\* the record is one of a shape's plain variants, with any of the values
ValueInput(r) ==
    \E S \in Shapes :
      \E t \in {S.type, "cardPayment", NoType},
         a \in PlainVariants(S.attributes),
         rel \in PlainVariants(S.relationships),
         amount \in Amounts, len \in DescriptionLengths,
         status \in Statuses, tags \in TagMaps :
         r = Record(t, a, rel, amount, Str(len), Enum(status), tags)

\* a patch request: a type and attributes, tags and possibly more
Patches ==
    {[type |-> t, attributes |-> a] :
        t \in Types,
        a \in UNION {{[k \in {"tags"} |-> Obj(tags)],
                      [k \in {"tags", "description"} |->
                          IF k = "tags" THEN Obj(tags) ELSE Str(3)]} : tags \in TagMaps}}

NoPatch == [type |-> NoType, attributes |-> <<>>]

-----------------------------------------------------------------------------
(* The operations are pure functions: a behaviour is one call.  Init draws *)
(* the raw record; an action applies one operation to it and records the   *)
(* result.                                                                 *)

Init ==
    /\ ShapeInput(raw) \/ ValueInput(raw)
    /\ patch = NoPatch
    /\ op = "none"
    /\ pc = "ready"
    /\ result = NoResult

ParseResource ==
    /\ pc = "ready"
    /\ op' = "parseResource"
    /\ result' = parseResource(raw)
    /\ pc' = "done"
    /\ UNCHANGED <<raw, patch>>

BuildRequest ==
    /\ pc = "ready"
    /\ op' = "buildRequest"
    /\ result' = buildRequest(raw)
    /\ pc' = "done"
    /\ UNCHANGED <<raw, patch>>

\* the resource patched is a parsed one
ApplyPatch ==
    /\ pc = "ready"
    /\ parseResource(raw).ok
    /\ \E p \in Patches :
          /\ patch' = p
          /\ result' = applyPatch(parseResource(raw).value, p)
    /\ op' = "applyPatch"
    /\ pc' = "done"
    /\ UNCHANGED raw

Next == ParseResource \/ BuildRequest \/ ApplyPatch

Spec == Init /\ [][Next]_vars

-----------------------------------------------------------------------------
(* Properties.                                                             *)

FiveDiscriminators ==
    {"achPayment", "bookPayment", "wirePayment", "billPayment", "achReceivedPayment"}

InlineCounterparty(r) == "counterparty" \in DOMAIN r.attributes

CounterpartyReference(r) == "counterparty" \in DOMAIN r.relationships

VerificationToken(r) == "plaidProcessorToken" \in DOMAIN r.attributes

MechanismCount(r) ==
    (IF InlineCounterparty(r) THEN 1 ELSE 0)
    + (IF CounterpartyReference(r) THEN 1 ELSE 0)
    + (IF VerificationToken(r) THEN 1 ELSE 0)

HasError(e, at, key) == Err(e, at, key) \in result.errors

\* C1: buildRequest of an achPayment request succeeds only when exactly one of
\* the inline counterparty, the counterparty relationship and the Plaid
\* processor token is present; with none, two or three it fails with a
\* ValidationError.
C1_ExactlyOneCounterpartyMechanism ==
    (op = "buildRequest" /\ raw.type = "achPayment") =>
        /\ result.ok => MechanismCount(raw) = 1
        /\ MechanismCount(raw) # 1 =>
              /\ ~result.ok
              /\ \E e \in result.errors : e.error = "ValidationError"
              /\ result.value = NoValue

\* an ACH request with the counterparty relationship alone is built
C1_Witness ==
    /\ op = "buildRequest" /\ raw.type = "achPayment"
    /\ CounterpartyReference(raw) /\ MechanismCount(raw) = 1
    /\ result.ok /\ RequestKind(raw) = "CreateLinkedPaymentRequest"

\* the resource a call of applyPatch was given
Patched == parseResource(raw).value

\* C4: applyPatch fails with a ValidationError whenever the resource is a
\* wirePayment or a billPayment, whenever the patch's type differs from the
\* resource's and whenever it is outside {achPayment, bookPayment,
\* achReceivedPayment}; it succeeds only when the types are equal and
\* patchable.
C4_PatchRejectedUnlessSamePatchableType ==
    op = "applyPatch" =>
        LET patchable == {"achPayment", "bookPayment", "achReceivedPayment"}
        IN  /\ (\/ Patched.type \in {"wirePayment", "billPayment"}
                \/ patch.type # Patched.type
                \/ patch.type \notin patchable) =>
                   /\ ~result.ok
                   /\ result.errors # {}
                   /\ \A e \in result.errors : e.error = "ValidationError"
            /\ result.ok => patch.type = Patched.type /\ Patched.type \in patchable

\* a wirePayment patched with a wirePayment patch is rejected
C4_Witness ==
    /\ op = "applyPatch" /\ Patched.type = "wirePayment" /\ patch.type = "wirePayment"
    /\ ~result.ok

\* C5: a successful applyPatch returns the resource with attributes.tags
\* replaced and nothing else changed: id, type, every other attribute and
\* every relationship are the input's; a failed applyPatch returns no resource.
C5_PatchChangesTagsOnly ==
    op = "applyPatch" =>
        /\ result.ok =>
              /\ result.value.id = Patched.id
              /\ result.value.type = Patched.type
              /\ result.value.relationships = Patched.relationships
              /\ DOMAIN result.value.attributes \ {"tags"}
                    = DOMAIN Patched.attributes \ {"tags"}
              /\ \A k \in DOMAIN Patched.attributes \ {"tags"} :
                    result.value.attributes[k] = Patched.attributes[k]
              /\ result.value.attributes["tags"] = patch.attributes["tags"]
        /\ ~result.ok => result.value = NoValue

\* a patch carrying other tags and a description is applied to a resource
C5_Witness ==
    /\ op = "applyPatch" /\ result.ok
    /\ "tags" \in DOMAIN Patched.attributes
    /\ "description" \in DOMAIN patch.attributes
    /\ patch.attributes["description"] # Patched.attributes["description"]
    /\ result.value.attributes["tags"] # Patched.attributes["tags"]

\* a resource that is valid but for the customer/customers rule: the keys its
\* variant requires are present, no other key is, no value is null or of the
\* wrong kind, the amount is a positive integer, the description is within
\* the variant's ceiling, the status is one of the variant's
ValidButExclusion(r) ==
    \E I \in Resources :
        /\ I.type = r.type
        /\ I.attributes.required \subseteq DOMAIN r.attributes
        /\ DOMAIN r.attributes \subseteq Declared(I.attributes)
        /\ I.relationships.required \subseteq DOMAIN r.relationships
        /\ DOMAIN r.relationships \subseteq Declared(I.relationships)
        /\ \A k \in DOMAIN r.attributes : r.attributes[k].kind = KindOf(k)
        /\ \A k \in DOMAIN r.relationships : r.relationships[k].kind = RelKindOf(k)
        /\ r.attributes["amount"].d = 1 /\ r.attributes["amount"].n >= 1
        /\ r.attributes["description"].n
              <= (IF r.type \in {"wirePayment", "bookPayment"} THEN 50 ELSE 10)
        /\ r.attributes["status"].s \in
              (IF r.type = "achReceivedPayment"
               THEN {"Pending", "Advanced", "Completed", "Returned"}
               ELSE {"Pending", "PendingReview", "Rejected", "Clearing", "Sent",
                     "Canceled", "Returned"})

BothCustomerAndCustomers(r) == {"customer", "customers"} \subseteq DOMAIN r.relationships

\* C6: parseResource dispatches on the type tag alone and fails closed: a
\* valid resource of one of the five discriminators is returned with the
\* type it came with; a missing or any other type gives a SchemaError and
\* no value.
C6_DispatchOnTypeFailsClosed ==
    op = "parseResource" =>
        /\ (raw.type \in FiveDiscriminators /\ ValidButExclusion(raw)
              /\ ~BothCustomerAndCustomers(raw)) =>
                 result.ok /\ result.value.type = raw.type
        /\ raw.type \notin FiveDiscriminators =>
              /\ ~result.ok
              /\ result.errors = {Err("SchemaError", "type", "type")}
              /\ result.value = NoValue
        /\ result.ok => result.value.type = raw.type /\ raw.type \in FiveDiscriminators

\* an achReceivedPayment is parsed
C6_Witness ==
    /\ op = "parseResource" /\ raw.type = "achReceivedPayment"
    /\ result.ok /\ result.value.type = "achReceivedPayment"

\* C7: parseResource accepts no resource with both the customer and the
\* customers relationship, and accepts the otherwise valid ones with one of
\* them or neither.
C7_CustomerXorCustomers ==
    op = "parseResource" =>
        /\ BothCustomerAndCustomers(raw) => ~result.ok
        /\ (ValidButExclusion(raw) /\ ~BothCustomerAndCustomers(raw)) => result.ok

\* an otherwise valid achPayment with both relationships is rejected
C7_Witness ==
    /\ op = "parseResource" /\ raw.type = "achPayment"
    /\ ValidButExclusion(raw) /\ BothCustomerAndCustomers(raw)
    /\ ~result.ok

DescriptionLength(r) == r.attributes["description"].n

HasDescription(r) ==
    "description" \in DOMAIN r.attributes /\ r.attributes["description"].kind = "string"

\* a request that is valid but for its description: a known discriminator,
\* exactly one request kind's keys, values of the right kinds, a positive
\* integer amount
ValidButDescription(r) ==
    /\ HasDescription(r)
    /\ \E R \in CreatePaymentRequest :
          /\ R.type = r.type
          /\ R.attributes.required \subseteq DOMAIN r.attributes
          /\ DOMAIN r.attributes \subseteq Declared(R.attributes)
          /\ DOMAIN r.relationships = R.relationships.required
    /\ \A k \in DOMAIN r.attributes : r.attributes[k].kind = KindOf(k)
    /\ \A k \in DOMAIN r.relationships : r.relationships[k].kind = RelKindOf(k)
    /\ r.attributes["amount"].d = 1 /\ r.attributes["amount"].n >= 1

\* C8: the description ceiling is inclusive and depends on the variant: a
\* Book or Wire request is accepted with 50 characters and rejected with 51,
\* an ACH request (inline, linked or verified) is accepted with 10 and
\* rejected with 11.
C8_DescriptionCeilingByVariant ==
    (op = "buildRequest" /\ HasDescription(raw)
       /\ raw.type \in {"bookPayment", "wirePayment", "achPayment"}) =>
        LET ceiling == IF raw.type = "achPayment" THEN 10 ELSE 50
        IN  /\ DescriptionLength(raw) > ceiling =>
                 ~result.ok /\ HasError("ValidationError", "attributes", "description")
            /\ DescriptionLength(raw) <= ceiling =>
                 ~HasError("ValidationError", "attributes", "description")
            /\ (ValidButDescription(raw) /\ DescriptionLength(raw) <= ceiling) =>
                 result.ok

\* a book request with a description of exactly 50 characters is built
C8_Witness ==
    /\ op = "buildRequest" /\ raw.type = "bookPayment"
    /\ HasDescription(raw) /\ DescriptionLength(raw) = 50
    /\ result.ok

HasAmount(r) == "amount" \in DOMAIN r.attributes /\ r.attributes["amount"].kind = "number"

\* the wire request of the scenario, but for its amount
WireScenario(r) ==
    /\ r.type = "wirePayment"
    /\ DOMAIN r.attributes = {"amount", "description", "counterparty"}
    /\ r.attributes["description"] = Str(4)
    /\ r.attributes["counterparty"] = Obj(<<>>)
    /\ r.relationships = [k \in {"account"} |-> Rel(k)]

\* C9: the amount of an accepted resource or request is a positive integer:
\* buildRequest and parseResource report an error on attributes.amount when
\* the amount is 0 or negative and none when it is an integer >= 1; the wire
\* request of the scenario is built with amount = 1000 and fails with 0.
C9_AmountPositiveInteger ==
    /\ (op \in {"buildRequest", "parseResource"} /\ result.ok) =>
          /\ HasAmount(raw)
          /\ raw.attributes["amount"].d = 1 /\ raw.attributes["amount"].n >= 1
          /\ result.value.attributes["amount"] = raw.attributes["amount"]
    /\ (\/ op = "buildRequest" /\ raw.type \in {"bookPayment", "wirePayment", "achPayment"}
        \/ op = "parseResource" /\ raw.type \in FiveDiscriminators) =>
          LET e == IF op = "buildRequest" THEN "ValidationError" ELSE "SchemaError"
          IN  HasAmount(raw) =>
                /\ raw.attributes["amount"].n <= 0 =>
                      ~result.ok /\ HasError(e, "attributes", "amount")
                /\ (raw.attributes["amount"].d = 1 /\ raw.attributes["amount"].n >= 1) =>
                      ~HasError(e, "attributes", "amount")
    /\ (op = "buildRequest" /\ WireScenario(raw)) =>
          /\ raw.attributes["amount"] = Num(1000, 1) =>
                /\ result.ok
                /\ RequestKind(raw) = "CreateWirePaymentRequest"
                /\ result.value.attributes["amount"] = Num(1000, 1)
          /\ raw.attributes["amount"] = Num(0, 1) =>
                ~result.ok /\ HasError("ValidationError", "attributes", "amount")

\* the wire request of the scenario with amount 0 is rejected on its amount
C9_Witness ==
    /\ op = "buildRequest" /\ WireScenario(raw)
    /\ raw.attributes["amount"] = Num(0, 1)
    /\ result.errors = {Err("ValidationError", "attributes", "amount")}

\* C10: an accepted resource carries one of the five discriminators and only
\* the fields its variant lists, none of them null: a billPayment's
\* attributes are within createdAt, status, direction, description, amount
\* and tags, a bookPayment has no counterparty attribute, and only an
\* achPayment has the counterparty relationship.
C10_OnlyTheVariantsFields ==
    (op = "parseResource" /\ result.ok) =>
        LET v == result.value
        IN  /\ v.type \in FiveDiscriminators
            /\ Cardinality({I \in Resources : I.type = v.type}) = 1
            /\ \A I \in Resources : I.type = v.type =>
                  /\ DOMAIN v.attributes \subseteq Declared(I.attributes)
                  /\ DOMAIN v.relationships \subseteq Declared(I.relationships)
            /\ \A k \in DOMAIN v.attributes : v.attributes[k] # Null
            /\ \A k \in DOMAIN v.relationships : v.relationships[k] # Null
            /\ v.type = "billPayment" =>
                  DOMAIN v.attributes \subseteq
                     {"createdAt", "status", "direction", "description", "amount", "tags"}
            /\ v.type = "bookPayment" => "counterparty" \notin DOMAIN v.attributes
            /\ v.type # "achPayment" => "counterparty" \notin DOMAIN v.relationships

\* a billPayment with all six attributes is parsed
C10_Witness ==
    /\ op = "parseResource" /\ result.ok /\ result.value.type = "billPayment"
    /\ DOMAIN result.value.attributes =
          {"createdAt", "status", "direction", "description", "amount", "tags"}

====
